---------------------------- MODULE Spec2Model ----------------------------
(***************************************************************************)
(* The request pipeline of coriolis-web (src/utils/ApiCaller.ts): the      *)
(* cancelable buffer, the response cache, the request log, the alerts and  *)
(* the redirect to the login route, as a state machine.                    *)
(*                                                                         *)
(* JavaScript values are written as follows.  A string is a TLA+ string.   *)
(* An object is a record; the empty object {} is the function with the     *)
(* empty domain.  An optional string that is absent is "" (which the code  *)
(* treats as absent too: every test on it is a truthiness test).  An       *)
(* optional number is a set holding at most that number.  A response       *)
(* payload is the string of its JSON text.                                 *)
(***************************************************************************)
EXTENDS Integers, Sequences, FiniteSets, TLC

VARIABLES
    cancelables,  \* ApiCaller.ts:40, index 1 is the front (the newest entry)
    calls,        \* every send call made so far, in call order
    cache,        \* the store of Cacher: key -> [data, storedAt]
    log,          \* the entries of ApiLogger, oldest first
    alerts,       \* the alerts of NotificationStore, oldest first
    hrefs,        \* the values assigned to window.location.href, oldest first
    location,     \* window.location: [pathname, search]
    now,          \* the clock Cacher reads
    microtasks    \* the calls whose cancel handle fired and whose rejection is queued

vars == <<cancelables, calls, cache, log, alerts, hrefs, location, now, microtasks>>

-----------------------------------------------------------------------------
(* Bounds of the model.                                                    *)

MaxCalls == 2
MaxCancelCalls == 3
MaxFiller == 101
MaxTime == 2
MaxHandled == 1
MaxTracked == 2

-----------------------------------------------------------------------------
(* Strings.                                                                *)

StartsWithAt(s, sub, i) ==
    /\ i + Len(sub) - 1 <= Len(s)
    /\ SubSeq(s, i, i + Len(sub) - 1) = sub

(* The least 1-based position >= i where sub occurs in s, or 0.             *)
IndexFrom(s, sub, i) ==
    LET hits == {k \in i..(Len(s) - Len(sub) + 1) : StartsWithAt(s, sub, k)}
    IN  IF hits = {} THEN 0 ELSE CHOOSE k \in hits : \A j \in hits : k <= j

(* String.prototype.indexOf: 0-based, -1 when sub does not occur.           *)
IndexOf(s, sub) == IndexFrom(s, sub, 1) - 1

(* The falsy payloads among the JSON texts.                                 *)
Truthy(v) == v \notin {"null", "''", "0", "false"}

Null == "null"

EmptyObject == [f \in {} |-> TRUE]


(* An optional value is a sequence holding at most that value.              *)
None == <<>>
Some(v) == <<v>>
IsSome(o) == o # <<>>

-----------------------------------------------------------------------------
(* Cacher, ApiLogger and NotificationStore, as the specification of the     *)
(* pipeline describes them (ResponseCache, RequestLog, the notification     *)
(* boundary).                                                               *)

(* load({ key, maxAge }): the stored payload when present and not stale     *)
(* (now - storedAt <= maxAge; no maxAge, never stale), else null.           *)
CacherLoad(store, key, maxAge, t) ==
    IF key \notin DOMAIN store THEN Null
    ELSE IF IsSome(maxAge) /\ t - store[key].storedAt > maxAge[1] THEN Null
    ELSE store[key].data

(* save({ key, data }): overwrites the entry of key, stamped with the time. *)
CacherSave(store, key, data, t) ==
    [k \in DOMAIN store \cup {key} |->
        IF k = key THEN [data |-> data, storedAt |-> t] ELSE store[k]]

(* log(entry): appends the entry with a timestamp.                          *)
LoggerLog(entries, entry, t, id) ==
    Append(entries, [entry |-> entry, at |-> t, call |-> id])

(* alert(message, level, options): one more alert.                          *)
NotificationAlert(shown, message, level, id) ==
    Append(shown, [message |-> message, level |-> level, call |-> id])

-----------------------------------------------------------------------------
(* ApiCaller.ts, the module-level helpers.                                  *)

MAX_CANCELABLES == 100

(* addCancelable evicting at the end it inserts at.                         *)
addCancelableShift(buffer, cancelable) ==
    LET unshifted == <<cancelable>> \o buffer
    IN  IF Len(unshifted) > MAX_CANCELABLES
        THEN SubSeq(unshifted, 2, Len(unshifted))
        ELSE unshifted

(* addCancelable dropping the oldest entry once the length reaches 100.     *)
addCancelablePopsAt100(buffer, cancelable) ==
    LET unshifted == <<cancelable>> \o buffer
    IN  IF Len(unshifted) >= MAX_CANCELABLES
        THEN SubSeq(unshifted, 1, Len(unshifted) - 1)
        ELSE unshifted

(* cancelables.unshift(cancelable); if (length > 100) cancelables.pop()     *)
addCancelable(buffer, cancelable) ==
    LET unshifted == <<cancelable>> \o buffer
    IN  IF Len(unshifted) > MAX_CANCELABLES
        THEN SubSeq(unshifted, 1, Len(unshifted) - 1)
        ELSE unshifted

isOnLoginPage(loc) == IndexOf(loc.pathname, "login") > -1

(* redirect without its test of the status code.                           *)
redirectAnyStatus(statusCode, loc) ==
    IF isOnLoginPage(loc) THEN <<>>
    ELSE LET currentPath ==
                 IF loc.pathname # "/"
                 THEN "?prev=" \o loc.pathname \o loc.search
                 ELSE "?prev=/"
         IN  <<"/login" \o currentPath>>

(* The values redirect assigns to window.location.href: none or one.        *)
redirect(statusCode, loc) ==
    IF statusCode # 401 \/ isOnLoginPage(loc) THEN <<>>
    ELSE LET currentPath ==
                 IF loc.pathname # "/"
                 THEN "?prev=" \o loc.pathname \o loc.search
                 ELSE "?prev=/"
         IN  <<"/login" \o currentPath>>

(* The leftmost match of /http(s)?:\/\/.*?\// in url at or after position   *)
(* i, as <<first, last>>, or <<>>: the scheme, then the shortest run up to  *)
(* the next "/".                                                            *)
SchemeMatchFrom(url, i) ==
    LET prefix(k) == IF StartsWithAt(url, "https://", k) THEN 8
                     ELSE IF StartsWithAt(url, "http://", k) THEN 7
                     ELSE 0
        slash(k) == IF prefix(k) = 0 THEN 0 ELSE IndexFrom(url, "/", k + prefix(k))
        starts == {k \in i..Len(url) : slash(k) > 0}
    IN  IF starts = {} THEN <<>>
        ELSE LET first == CHOOSE k \in starts : \A j \in starts : k <= j
             IN  <<first, slash(first)>>

MAX_LENGTH == 100

(* truncateUrl without the concatenation of the path with itself.           *)
truncateUrlOnce(url) ==
    LET m == SchemeMatchFrom(url, 1)
        relativePath == IF m = <<>> THEN url
                        ELSE SubSeq(url, 1, m[1] - 1) \o "/"
                             \o SubSeq(url, m[2] + 1, Len(url))
    IN  IF Len(relativePath) > MAX_LENGTH
        THEN SubSeq(relativePath, 1, MAX_LENGTH) \o "..."
        ELSE relativePath

truncateUrl(url) ==
    LET m == SchemeMatchFrom(url, 1)
        replaced == IF m = <<>> THEN url
                    ELSE SubSeq(url, 1, m[1] - 1) \o "/"
                         \o SubSeq(url, m[2] + 1, Len(url))
        relativePath == replaced \o replaced
    IN  IF Len(relativePath) > MAX_LENGTH
        THEN SubSeq(relativePath, 1, MAX_LENGTH) \o "..."
        ELSE relativePath

-----------------------------------------------------------------------------
(* ApiCaller.send.  Each part of it is written as the list of its effects   *)
(* in program order; Apply carries a list out on the state.                 *)

Register(cancelable) == [e |-> "register", cancelable |-> cancelable]
Log(entry) == [e |-> "log", entry |-> entry]
Dispatch == [e |-> "dispatch"]
Save(key, data) == [e |-> "save", key |-> key, data |-> data]
Alert(message) == [e |-> "alert", message |-> message, level |-> "error"]
Href(target) == [e |-> "href", target |-> target]
Resolve(value) == [e |-> "resolve", value |-> value]
Reject(value) == [e |-> "reject", value |-> value]

(* method: options.method || 'GET'                                          *)
Method(options) == IF options.method # "" THEN options.method ELSE "GET"

(* CachedData without the maxAge of the call.                               *)
CachedDataIgnoringAge(options, store, t) ==
    IF options.cache
    THEN CacherLoad(store, options.url, None, t)
    ELSE Null

(* Lines 95-100: the cached payload, read when options.cache is set.        *)
CachedData(options, store, t) ==
    IF options.cache
    THEN CacherLoad(store, options.url, options.cacheFor, t)
    ELSE Null

(* SendEffects logging the request once it is dispatched.                   *)
SendEffectsLogAfterDispatch(options, store, t, id) ==
    LET cachedData == CachedData(options, store, t)
    IN  IF Truthy(cachedData)
        THEN <<Resolve([data |-> cachedData])>>
        ELSE (IF options.cancelId # ""
              THEN <<Register([requestId |-> options.cancelId, cancel |-> id])>>
              ELSE <<>>)
             \o <<Dispatch>>
             \o (IF ~options.skipLog
                 THEN <<Log([url |-> options.url, method |-> Method(options),
                             type |-> "REQUEST"])>>
                 ELSE <<>>)

(* SendEffects registering the cancelable before it reads the cache.        *)
SendEffectsRegisterFirst(options, store, t, id) ==
    LET cachedData == CachedData(options, store, t)
    IN  (IF options.cancelId # ""
         THEN <<Register([requestId |-> options.cancelId, cancel |-> id])>>
         ELSE <<>>)
        \o (IF Truthy(cachedData)
            THEN <<Resolve([data |-> cachedData])>>
            ELSE (IF ~options.skipLog
                  THEN <<Log([url |-> options.url, method |-> Method(options),
                              type |-> "REQUEST"])>>
                  ELSE <<>>)
                 \o <<Dispatch>>)

(* SendEffects sharing the request in flight: the call that goes to the     *)
(* network leaves a mark in the cache that later calls are served.          *)
SendEffectsSharesInFlight(options, store, t, id) ==
    LET cachedData == CachedData(options, store, t)
    IN  IF Truthy(cachedData)
        THEN <<Resolve([data |-> cachedData])>>
        ELSE (IF options.cancelId # ""
              THEN <<Register([requestId |-> options.cancelId, cancel |-> id])>>
              ELSE <<>>)
             \o (IF ~options.skipLog
                 THEN <<Log([url |-> options.url, method |-> Method(options),
                             type |-> "REQUEST"])>>
                 ELSE <<>>)
             \o (IF options.cache THEN <<Save(options.url, "{pending:1}")>> ELSE <<>>)
             \o <<Dispatch>>

(* Lines 94-127, the synchronous part of send for call id.                  *)
SendEffects(options, store, t, id) ==
    LET cachedData == CachedData(options, store, t)
    IN  IF Truthy(cachedData)
        THEN <<Resolve([data |-> cachedData])>>
        ELSE (IF options.cancelId # ""
              THEN <<Register([requestId |-> options.cancelId, cancel |-> id])>>
              ELSE <<>>)
             \o (IF ~options.skipLog
                 THEN <<Log([url |-> options.url, method |-> Method(options),
                             type |-> "REQUEST"])>>
                 ELSE <<>>)
             \o <<Dispatch>>

(* ThenEffects saving the payload only when it is truthy.                   *)
ThenEffectsSaveTruthy(options, response) ==
    (IF ~options.skipLog
     THEN <<Log([url |-> options.url, method |-> Method(options),
                 type |-> "RESPONSE", requestStatus |-> "200"])>>
     ELSE <<>>)
    \o (IF options.cache /\ Truthy(response.data)
        THEN <<Save(options.url, response.data)>>
        ELSE <<>>)
    \o <<Resolve(response)>>

(* Lines 127-140, the handler of a fulfilled transport promise.             *)
ThenEffects(options, response) ==
    (IF ~options.skipLog
     THEN <<Log([url |-> options.url, method |-> Method(options),
                 type |-> "RESPONSE", requestStatus |-> "200"])>>
     ELSE <<>>)
    \o (IF options.cache THEN <<Save(options.url, response.data)>> ELSE <<>>)
    \o <<Resolve(response)>>

(* Lines 148-150: the text of the alert of a response with an error status. *)
ServerAlertMessage(options, response) ==
    LET data == response.data
        message == IF data.errorMessage # "" THEN data.errorMessage
                   ELSE data.description
    IN  IF message # "" THEN message
        ELSE (IF response.statusText # "" THEN response.statusText
              ELSE ToString(response.status))
             \o " " \o truncateUrl(options.url)

ConnectionAlertMessage(options) ==
    "Request failed, there might be a problem with the connection to the server. "
    \o truncateUrl(options.url)

(* ServerErrorEffects with the log entry moved under the test of           *)
(* quietError.                                                              *)
ServerErrorEffectsQuietSkipsLog(options, error, loc) ==
    LET response == error.response[1]
        responseURL == error.request[1].responseURL
    IN  (IF (response.status # 401 \/ ~isOnLoginPage(loc)) /\ ~options.quietError
         THEN <<Alert(ServerAlertMessage(options, response))>>
         ELSE <<>>)
        \o (IF IndexOf(responseURL, "/proxy/") = -1
               /\ IndexOf(responseURL, "/azure-login") = -1
            THEN (IF redirect(response.status, loc) # <<>>
                  THEN <<Href(redirect(response.status, loc)[1])>>
                  ELSE <<>>)
            ELSE <<>>)
        \o (IF ~options.quietError
            THEN <<Log([url |-> options.url, method |-> Method(options),
                        type |-> "RESPONSE",
                        requestStatus |-> ToString(response.status),
                        requestError |-> error])>>
            ELSE <<>>)
        \o <<Reject(response)>>

(* ServerErrorEffects alerting on the login page as on any other.           *)
ServerErrorEffectsAlertOnLogin(options, error, loc) ==
    LET response == error.response[1]
        responseURL == error.request[1].responseURL
    IN  (IF ~options.quietError
         THEN <<Alert(ServerAlertMessage(options, response))>>
         ELSE <<>>)
        \o (IF IndexOf(responseURL, "/proxy/") = -1
               /\ IndexOf(responseURL, "/azure-login") = -1
            THEN (IF redirect(response.status, loc) # <<>>
                  THEN <<Href(redirect(response.status, loc)[1])>>
                  ELSE <<>>)
            ELSE <<>>)
        \o <<Log([url |-> options.url, method |-> Method(options),
                  type |-> "RESPONSE",
                  requestStatus |-> ToString(response.status),
                  requestError |-> error]),
             Reject(response)>>

(* ServerErrorEffects with the redirect under the test of quietError.       *)
ServerErrorEffectsQuietStays(options, error, loc) ==
    LET response == error.response[1]
        responseURL == error.request[1].responseURL
    IN  (IF (response.status # 401 \/ ~isOnLoginPage(loc)) /\ ~options.quietError
         THEN <<Alert(ServerAlertMessage(options, response))>>
         ELSE <<>>)
        \o (IF IndexOf(responseURL, "/proxy/") = -1
               /\ IndexOf(responseURL, "/azure-login") = -1
               /\ ~options.quietError
            THEN (IF redirect(response.status, loc) # <<>>
                  THEN <<Href(redirect(response.status, loc)[1])>>
                  ELSE <<>>)
            ELSE <<>>)
        \o <<Log([url |-> options.url, method |-> Method(options),
                  type |-> "RESPONSE",
                  requestStatus |-> ToString(response.status),
                  requestError |-> error]),
             Reject(response)>>

(* Lines 142-174: the server responded with a status out of the 2xx range.  *)
ServerErrorEffects(options, error, loc) ==
    LET response == error.response[1]
        responseURL == error.request[1].responseURL
    IN  (IF (response.status # 401 \/ ~isOnLoginPage(loc)) /\ ~options.quietError
         THEN <<Alert(ServerAlertMessage(options, response))>>
         ELSE <<>>)
        \o (IF IndexOf(responseURL, "/proxy/") = -1
               /\ IndexOf(responseURL, "/azure-login") = -1
            THEN (IF redirect(response.status, loc) # <<>>
                  THEN <<Href(redirect(response.status, loc)[1])>>
                  ELSE <<>>)
            ELSE <<>>)
        \o <<Log([url |-> options.url, method |-> Method(options),
                  type |-> "RESPONSE",
                  requestStatus |-> ToString(response.status),
                  requestError |-> error]),
             Reject(response)>>

(* NoResponseEffects taking a missing response for an expired session.     *)
NoResponseEffectsRedirecting(options, error, loc) ==
    (IF ~isOnLoginPage(loc) /\ ~options.quietError
     THEN <<Alert(ConnectionAlertMessage(options))>>
     ELSE <<>>)
    \o (IF redirect(401, loc) # <<>> THEN <<Href(redirect(401, loc)[1])>> ELSE <<>>)
    \o <<Log([url |-> options.url, method |-> Method(options),
              type |-> "RESPONSE", description |-> "No response",
              requestStatus |-> "500", requestError |-> error]),
         Reject(EmptyObject)>>

(* NoResponseEffects alerting on the login page as on any other.            *)
NoResponseEffectsAlertOnLogin(options, error, loc) ==
    (IF ~options.quietError
     THEN <<Alert(ConnectionAlertMessage(options))>>
     ELSE <<>>)
    \o <<Log([url |-> options.url, method |-> Method(options),
              type |-> "RESPONSE", description |-> "No response",
              requestStatus |-> "500", requestError |-> error]),
         Reject(EmptyObject)>>

(* Lines 175-201: the request was made but no response was received.        *)
NoResponseEffects(options, error, loc) ==
    (IF ~isOnLoginPage(loc) /\ ~options.quietError
     THEN <<Alert(ConnectionAlertMessage(options))>>
     ELSE <<>>)
    \o <<Log([url |-> options.url, method |-> Method(options),
              type |-> "RESPONSE", description |-> "No response",
              requestStatus |-> "500", requestError |-> error]),
         Reject(EmptyObject)>>

(* SetupOrCancelEffects without the return that ends the cancelled case.    *)
SetupOrCancelEffectsFallThrough(options, error, loc) ==
    LET canceled == error.name = "Cancel"
    IN  <<Reject([canceled |-> canceled])>>
        \o (IF canceled
            THEN <<Log([url |-> options.url, method |-> Method(options),
                        type |-> "RESPONSE", requestStatus |-> "canceled"])>>
            ELSE <<>>)
        \o <<Log([url |-> options.url, method |-> Method(options),
                  type |-> "RESPONSE",
                  description |-> "Something happened in setting up the request",
                  requestStatus |-> "500"]),
             Alert(ConnectionAlertMessage(options))>>

(* SetupOrCancelEffects with the alert of a set-up error under the test of  *)
(* quietError.                                                              *)
SetupOrCancelEffectsQuiet(options, error, loc) ==
    LET canceled == error.name = "Cancel"
    IN  <<Reject([canceled |-> canceled])>>
        \o (IF canceled
            THEN <<Log([url |-> options.url, method |-> Method(options),
                        type |-> "RESPONSE", requestStatus |-> "canceled"])>>
            ELSE <<Log([url |-> options.url, method |-> Method(options),
                        type |-> "RESPONSE",
                        description |-> "Something happened in setting up the request",
                        requestStatus |-> "500"])>>
                 \o (IF ~options.quietError
                     THEN <<Alert(ConnectionAlertMessage(options))>>
                     ELSE <<>>))

(* Lines 202-236: neither a response nor a request: a cancellation, or an   *)
(* error in setting up the request.                                         *)
SetupOrCancelEffects(options, error, loc) ==
    LET canceled == error.name = "Cancel"
    IN  <<Reject([canceled |-> canceled])>>
        \o (IF canceled
            THEN <<Log([url |-> options.url, method |-> Method(options),
                        type |-> "RESPONSE", requestStatus |-> "canceled"])>>
            ELSE <<Log([url |-> options.url, method |-> Method(options),
                        type |-> "RESPONSE",
                        description |-> "Something happened in setting up the request",
                        requestStatus |-> "500"]),
                   Alert(ConnectionAlertMessage(options))>>)

(* CatchEffects testing error.request before error.response.                *)
CatchEffectsRequestFirst(options, error, loc) ==
    IF IsSome(error.request) THEN NoResponseEffects(options, error, loc)
    ELSE IF IsSome(error.response) THEN ServerErrorEffects(options, error, loc)
    ELSE SetupOrCancelEffects(options, error, loc)

(* Lines 141-237, the handler of a rejected transport promise.              *)
CatchEffects(options, error, loc) ==
    IF IsSome(error.response) THEN ServerErrorEffects(options, error, loc)
    ELSE IF IsSome(error.request) THEN NoResponseEffects(options, error, loc)
    ELSE SetupOrCancelEffects(options, error, loc)

-----------------------------------------------------------------------------
(* The state and the effects on it.                                         *)

NewCall(options, t) ==
    [options |-> options,
     at |-> t,                \* the time of the call
     state |-> "created",     \* created, pending, resolved, rejected
     value |-> None,          \* the value the promise settled with
     net |-> 0,               \* the transport calls made for it
     cancelCalls |-> 0,       \* the invocations of its cancel handle
     outcome |-> None,        \* what the transport answered
     loc |-> None,            \* window.location when its handler ran
     trace |-> <<>>]          \* its effects, in order

World ==
    [cancelables |-> cancelables, calls |-> calls, cache |-> cache,
     log |-> log, alerts |-> alerts, hrefs |-> hrefs]

(* A promise settles once: resolve and reject of a settled one do nothing.  *)
Settled(call, how, value) ==
    IF call.state \in {"resolved", "rejected"} THEN call
    ELSE [call EXCEPT !.state = how, !.value = Some(value)]

ApplyOne(w, eff, id, t) ==
    LET traced == [w EXCEPT !.calls[id].trace = Append(@, eff)]
    IN  CASE eff.e = "register" ->
                [traced EXCEPT !.cancelables = addCancelable(@, eff.cancelable)]
          [] eff.e = "log" ->
                [traced EXCEPT !.log = LoggerLog(@, eff.entry, t, id)]
          [] eff.e = "dispatch" ->
                [traced EXCEPT !.calls[id].net = @ + 1,
                               !.calls[id].state = "pending"]
          [] eff.e = "save" ->
                [traced EXCEPT !.cache = CacherSave(@, eff.key, eff.data, t)]
          [] eff.e = "alert" ->
                [traced EXCEPT !.alerts =
                                   NotificationAlert(@, eff.message, eff.level, id)]
          [] eff.e = "href" ->
                [traced EXCEPT !.hrefs = Append(@, [target |-> eff.target, call |-> id])]
          [] eff.e = "resolve" ->
                [traced EXCEPT !.calls[id] = Settled(@, "resolved", eff.value)]
          [] eff.e = "reject" ->
                [traced EXCEPT !.calls[id] = Settled(@, "rejected", eff.value)]

RECURSIVE Apply(_, _, _, _)
Apply(w, effs, id, t) ==
    IF effs = <<>> THEN w
    ELSE Apply(ApplyOne(w, Head(effs), id, t), Tail(effs), id, t)

Becomes(w) ==
    /\ cancelables' = w.cancelables
    /\ calls' = w.calls
    /\ cache' = w.cache
    /\ log' = w.log
    /\ alerts' = w.alerts
    /\ hrefs' = w.hrefs

-----------------------------------------------------------------------------
(* The operations.                                                          *)

(* send(options): call number Len(calls) + 1.                               *)
Send(options) ==
    LET id == Len(calls) + 1
        started == [World EXCEPT !.calls = Append(@, NewCall(options, now))]
    IN  /\ Becomes(Apply(started, SendEffects(options, cache, now, id), id, now))
        /\ UNCHANGED <<location, now, microtasks>>

(* filteredCancelables stopping at the first match.                         *)
filteredCancelablesFirstOnly(buffer, cancelRequestId) ==
    LET all == SelectSeq(buffer, LAMBDA r : r.requestId = cancelRequestId)
    IN  IF all = <<>> THEN <<>> ELSE <<Head(all)>>

(* filteredCancelables keeping every entry, whatever its tag.               *)
filteredCancelablesAnyTag(buffer, cancelRequestId) ==
    SelectSeq(buffer, LAMBDA r : TRUE)

(* Lines 83-86: the calls whose cancel handle cancelRequests invokes, in    *)
(* the order of the buffer.                                                 *)
filteredCancelables(buffer, cancelRequestId) ==
    SelectSeq(buffer, LAMBDA r : r.requestId = cancelRequestId)

(* remainingCancelables emptying the buffer once a tag is cancelled.        *)
remainingCancelablesNone(buffer, cancelRequestId) ==
    SelectSeq(buffer, LAMBDA r : FALSE)

(* Line 87: the buffer cancelRequests leaves.                               *)
remainingCancelables(buffer, cancelRequestId) ==
    SelectSeq(buffer, LAMBDA r : r.requestId # cancelRequestId)

(* CancelAll with a cancel handle that fires on a settled call too.         *)
RECURSIVE CancelAllSettledToo(_, _, _)
CancelAllSettledToo(cs, queue, handles) ==
    IF handles = <<>> THEN [calls |-> cs, microtasks |-> queue]
    ELSE LET id == Head(handles).cancel
             fires == cs[id].cancelCalls = 0
         IN  CancelAllSettledToo([cs EXCEPT ![id].cancelCalls = @ + 1],
                                 IF fires THEN Append(queue, id) ELSE queue,
                                 Tail(handles))

(* c.cancel() of the transport: the first invocation on a call in flight    *)
(* queues the rejection of its transport promise; any other does nothing.   *)
RECURSIVE CancelAll(_, _, _)
CancelAll(cs, queue, handles) ==
    IF handles = <<>> THEN [calls |-> cs, microtasks |-> queue]
    ELSE LET id == Head(handles).cancel
             fires == /\ cs[id].state = "pending"
                      /\ cs[id].cancelCalls = 0
         IN  CancelAll([cs EXCEPT ![id].cancelCalls = @ + 1],
                       IF fires THEN Append(queue, id) ELSE queue,
                       Tail(handles))

(* cancelRequests(cancelRequestId)                                          *)
CancelRequests(cancelRequestId) ==
    LET done == CancelAll(calls, microtasks,
                          filteredCancelables(cancelables, cancelRequestId))
    IN  /\ calls' = done.calls
        /\ microtasks' = done.microtasks
        /\ cancelables' = remainingCancelables(cancelables, cancelRequestId)
        /\ UNCHANGED <<cache, log, alerts, hrefs, location, now>>

(* What the transport rejects with.                                         *)
ErrorWith(response, request, name) ==
    [response |-> response, request |-> request, name |-> name]

CancelError == ErrorWith(None, None, "Cancel")
SetupError == ErrorWith(None, None, "Error")
NoResponseError == ErrorWith(None, Some([responseURL |-> ""]), "Error")

Origin == "http://host"

ResponseURL(url) == IF StartsWithAt(url, "http", 1) THEN url ELSE Origin \o url

ServerError(url, response) ==
    ErrorWith(Some(response), Some([responseURL |-> ResponseURL(url)]), "Error")

(* A macrotask of the transport runs only once the microtasks are done, and *)
(* a call whose cancel handle fired is answered by its cancellation.        *)
InFlight(id) ==
    /\ id \in DOMAIN calls
    /\ calls[id].state = "pending"
    /\ calls[id].cancelCalls = 0 \/ \A k \in DOMAIN microtasks : microtasks[k] # id
    /\ microtasks = <<>>

Answered(w, id, outcome) ==
    [w EXCEPT !.calls[id].outcome = Some(outcome),
              !.calls[id].loc = Some(location)]

(* The transport fulfils call id with a response of status 2xx.             *)
Respond(id, response) ==
    /\ InFlight(id)
    /\ Becomes(Apply(Answered(World, id, response),
                     ThenEffects(calls[id].options, response), id, now))
    /\ UNCHANGED <<location, now, microtasks>>

(* The transport rejects call id with error.                                *)
Fail(id, error) ==
    /\ InFlight(id)
    /\ Becomes(Apply(Answered(World, id, error),
                     CatchEffects(calls[id].options, error, location), id, now))
    /\ UNCHANGED <<location, now, microtasks>>

(* The queued rejection of the oldest cancelled call reaches its handler.   *)
RunMicrotask ==
    /\ microtasks # <<>>
    /\ LET id == Head(microtasks)
       IN  Becomes(Apply(Answered(World, id, CancelError),
                         CatchEffects(calls[id].options, CancelError, location),
                         id, now))
    /\ microtasks' = Tail(microtasks)
    /\ UNCHANGED <<location, now>>

(* The clock advances.                                                      *)
Tick ==
    /\ now < MaxTime
    /\ now' = now + 1
    /\ UNCHANGED <<cancelables, calls, cache, log, alerts, hrefs, location, microtasks>>

-----------------------------------------------------------------------------
(* The inputs.                                                              *)

Options(url, cancelId, quietError, skipLog, cacheOn, cacheFor) ==
    [url |-> url, method |-> "", cancelId |-> cancelId, quietError |-> quietError,
     skipLog |-> skipLog, cache |-> cacheOn, cacheFor |-> cacheFor]

Locations ==
    { [pathname |-> "/", search |-> "?tab=1"],
      [pathname |-> "/replicas", search |-> "?page=2"],
      [pathname |-> "/login", search |-> ""] }

NoData == [errorMessage |-> "", description |-> ""]

ErrorResponses ==
    { [status |-> 401, statusText |-> "Unauthorized", data |-> NoData],
      [status |-> 500, statusText |-> "",
       data |-> [errorMessage |-> "", description |-> "boom"]] }

OkResponse(data) == [status |-> 200, statusText |-> "OK", data |-> data]

InitAt(loc) ==
    /\ cancelables = <<>>
    /\ calls = <<>>
    /\ cache = [k \in {} |-> 0]
    /\ log = <<>>
    /\ alerts = <<>>
    /\ hrefs = <<>>
    /\ location = loc
    /\ now = 0
    /\ microtasks = <<>>

Init == \E loc \in Locations : InitAt(loc)

(* Failures, alerts and the redirect: a call to each kind of url, one of    *)
(* them cancelable, and a quiet one, answered in every way, on every page.  *)
ErrorOptions ==
    { Options("/api/replicas", "", FALSE, FALSE, FALSE, None),
      Options("/api/replicas", "", TRUE, FALSE, FALSE, None),
      Options("/proxy/azure", "", FALSE, FALSE, FALSE, None),
      Options("/api/azure-login", "grp1", FALSE, FALSE, FALSE, None) }

Next ==
    \/ \E o \in ErrorOptions : Len(calls) < MaxCalls /\ Send(o)
    \/ \E id \in DOMAIN calls : Respond(id, OkResponse("{a:1}"))
    \/ \E id \in DOMAIN calls, r \in ErrorResponses :
          Fail(id, ServerError(calls[id].options.url, r))
    \/ \E id \in DOMAIN calls : Fail(id, NoResponseError)
    \/ \E id \in DOMAIN calls : Fail(id, SetupError)
    \/ CancelRequests("grp1")
    \/ RunMicrotask

Spec == Init /\ [][Next]_vars

Home == [pathname |-> "/replicas", search |-> "?page=2"]

(* Reading the cache: calls to one url with cache, with and without         *)
(* cacheFor, answered with a truthy or a falsy payload, while the clock     *)
(* advances.                                                                *)
CacheOptions ==
    { Options("/api/endpoints", "", FALSE, FALSE, TRUE, None),
      Options("/api/endpoints", "", FALSE, FALSE, TRUE, Some(1)) }

Payloads == {"{a:1}", "''"}

NextCache ==
    \/ \E o \in CacheOptions : Len(calls) < MaxCalls /\ Send(o)
    \/ \E id \in DOMAIN calls, data \in Payloads : Respond(id, OkResponse(data))
    \/ Tick

SpecCache == InitAt(Home) /\ [][NextCache]_vars

(* Cancellation: calls under two tags and without one, answered or          *)
(* cancelled by tag; "grp3" is a tag no call carries.                       *)
CancelOptions ==
    { Options("/api/executions", cancelId, FALSE, FALSE, FALSE, None) :
        cancelId \in {"", "grp1", "grp2"} }

CancelTags == {"grp1", "grp2", "grp3"}

NextCancel ==
    \/ \E o \in CancelOptions : Len(calls) < MaxCancelCalls /\ Send(o)
    \/ \E id \in DOMAIN calls : Respond(id, OkResponse("{a:1}"))
    \/ \E tag \in CancelTags : CancelRequests(tag)
    \/ RunMicrotask

SpecCancel == InitAt(Home) /\ [][NextCancel]_vars

(* The buffer at its capacity: one call under "grp1", made at any moment    *)
(* among the calls of a poller under "poll", which the transport leaves     *)
(* unanswered and nobody cancels.                                           *)
ObservedOptions == Options("/api/executions", "grp1", FALSE, FALSE, FALSE, None)
FillerOptions == Options("/api/poll", "poll", TRUE, TRUE, FALSE, None)

Observed == {id \in DOMAIN calls : calls[id].options.cancelId = "grp1"}
Fillers == {id \in DOMAIN calls : calls[id].options.cancelId = "poll"}

NextEvict ==
    \/ Observed = {} /\ Send(ObservedOptions)
    \/ Cardinality(Fillers) < MaxFiller /\ Send(FillerOptions)
    \/ \E id \in Observed : Respond(id, OkResponse("{a:1}"))
    \/ CancelRequests("grp1")
    \/ RunMicrotask

SpecEvict == InitAt(Home) /\ [][NextEvict]_vars

-----------------------------------------------------------------------------
(* The buckets of the handler of one call, its log entries and its alerts:  *)
(* a call with and without quietError, skipLog and cancelId, to a plain url *)
(* and to a proxied one, answered in every way, on every page.              *)
BucketOptions ==
    { Options(url, cancelId, quietError, skipLog, FALSE, None) :
        url \in {"/api/replicas", "/proxy/azure"}, cancelId \in {"", "grp1"},
        quietError \in BOOLEAN, skipLog \in BOOLEAN }

NextBuckets ==
    \/ \E o \in BucketOptions : Len(calls) < MaxHandled /\ Send(o)
    \/ \E id \in DOMAIN calls : Respond(id, OkResponse("{a:1}"))
    \/ \E id \in DOMAIN calls, r \in ErrorResponses :
          Fail(id, ServerError(calls[id].options.url, r))
    \/ \E id \in DOMAIN calls : Fail(id, NoResponseError)
    \/ \E id \in DOMAIN calls : Fail(id, SetupError)
    \/ CancelRequests("grp1")
    \/ RunMicrotask

SpecBuckets == Init /\ [][NextBuckets]_vars

-----------------------------------------------------------------------------

(* Writing the cache: calls to two urls, with and without cache, one of     *)
(* them cancelable, answered with each payload and failing in each way.     *)
StoreOptions ==
    { Options("/api/endpoints", "", FALSE, FALSE, FALSE, None),
      Options("/api/endpoints", "", FALSE, FALSE, TRUE, None),
      Options("/api/endpoints", "grp1", FALSE, FALSE, TRUE, None),
      Options("/api/providers", "", FALSE, FALSE, TRUE, None) }

InternalError ==
    [status |-> 500, statusText |-> "Internal Server Error", data |-> NoData]

StorePayloads == {"{a:1}", "{a:2}", "''"}

NextStore ==
    \/ \E o \in StoreOptions : Len(calls) < MaxCalls /\ Send(o)
    \/ \E id \in DOMAIN calls, data \in StorePayloads : Respond(id, OkResponse(data))
    \/ \E id \in DOMAIN calls :
          Fail(id, ServerError(calls[id].options.url, InternalError))
    \/ \E id \in DOMAIN calls : Fail(id, NoResponseError)
    \/ \E id \in DOMAIN calls : Fail(id, SetupError)
    \/ CancelRequests("grp1")
    \/ RunMicrotask

SpecStore == InitAt(Home) /\ [][NextStore]_vars

-----------------------------------------------------------------------------

(* The life of a cancelable: two calls with a tag and cache, the second     *)
(* sent before any poller, answered, failed or cancelled while the pollers  *)
(* fill the buffer.                                                         *)
TrackedOptions == Options("/api/executions", "grp1", FALSE, FALSE, TRUE, None)

NextLife ==
    \/ /\ Cardinality(Observed) < MaxTracked
       /\ Fillers = {}
       /\ Send(TrackedOptions)
    \/ Observed # {} /\ Cardinality(Fillers) < MaxFiller /\ Send(FillerOptions)
    \/ \E id \in Observed : Respond(id, OkResponse("{a:1}"))
    \/ \E id \in Observed : Fail(id, NoResponseError)
    \/ CancelRequests("grp1")
    \/ RunMicrotask

SpecLife == InitAt(Home) /\ [][NextLife]_vars

-----------------------------------------------------------------------------

(* The text of the alerts: one call to a url of each kind, absolute or      *)
(* relative, with a path whose double is shorter than, as long as and       *)
(* longer than 100 characters, failing in each way that alerts.             *)
Filler ==
    "xxxxxxxxxxxxxxxxxxxxxxxxxxxxxxxxxxxxxxxxxxxxxxxxxx"
    \o "xxxxxxxxxxxxxxxxxxxxxxxxxxxxxxxxxxxxxxxxxxxxxxxxxx"

Padding(n) == SubSeq(Filler, 1, n)

PathLengths == {49, 50, 51, 60, 100}

TruncatePaths ==
    {"/", "/api/migrations/abc"}
        \cup {"/api/" \o Padding(n - 5) : n \in PathLengths}

TruncateUrls ==
    {host \o path : host \in {"", "http://host", "https://host"},
                    path \in TruncatePaths}

TruncateOptions ==
    {Options(url, "", FALSE, FALSE, FALSE, None) : url \in TruncateUrls}

NextTruncate ==
    \/ \E o \in TruncateOptions : Len(calls) < MaxHandled /\ Send(o)
    \/ \E id \in DOMAIN calls : Respond(id, OkResponse("{a:1}"))
    \/ \E id \in DOMAIN calls, r \in ErrorResponses :
          Fail(id, ServerError(calls[id].options.url, r))
    \/ \E id \in DOMAIN calls : Fail(id, NoResponseError)
    \/ \E id \in DOMAIN calls : Fail(id, SetupError)

SpecTruncate == InitAt(Home) /\ [][NextTruncate]_vars

-----------------------------------------------------------------------------

(* What the claims speak of.                                                *)

Handled(id) == id \in DOMAIN calls /\ IsSome(calls[id].outcome)

(* The failure buckets, by what the transport answered.                     *)
IsSuccess(id) == Handled(id) /\ "status" \in DOMAIN calls[id].outcome[1]
IsFailure(id) == Handled(id) /\ "name" \in DOMAIN calls[id].outcome[1]
IsServerError(id) == IsFailure(id) /\ IsSome(calls[id].outcome[1].response)
IsNoResponse(id) ==
    /\ IsFailure(id)
    /\ ~IsSome(calls[id].outcome[1].response)
    /\ IsSome(calls[id].outcome[1].request)
IsCancelled(id) ==
    /\ IsFailure(id)
    /\ ~IsSome(calls[id].outcome[1].response)
    /\ ~IsSome(calls[id].outcome[1].request)
    /\ calls[id].outcome[1].name = "Cancel"
IsSetupFailure(id) ==
    /\ IsFailure(id)
    /\ ~IsSome(calls[id].outcome[1].response)
    /\ ~IsSome(calls[id].outcome[1].request)
    /\ calls[id].outcome[1].name # "Cancel"

Navigations(id) == SelectSeq(hrefs, LAMBDA h : h.call = id)
AlertsOf(id) == SelectSeq(alerts, LAMBDA a : a.call = id)
LogOf(id) == SelectSeq(log, LAMBDA l : l.call = id)
ResponseLogOf(id) == SelectSeq(log, LAMBDA l : l.call = id /\ l.entry.type = "RESPONSE")

OnLoginRoute(loc) == StartsWithAt(loc.pathname, "/login", 1)

(* C7: a failed response navigates to the login route if and only if its    *)
(* status is 401, the page is not the login page and the failing url holds  *)
(* neither /proxy/ nor /azure-login.                                        *)
C7_RedirectIff ==
    \A id \in DOMAIN calls :
        IsServerError(id) =>
            LET response == calls[id].outcome[1].response[1]
                failingUrl == calls[id].outcome[1].request[1].responseURL
            IN  (Navigations(id) # <<>>) <=>
                    /\ response.status = 401
                    /\ ~OnLoginRoute(calls[id].loc[1])
                    /\ IndexFrom(failingUrl, "/proxy/", 1) = 0
                    /\ IndexFrom(failingUrl, "/azure-login", 1) = 0

C7_Witness ==
    \E id \in DOMAIN calls :
        /\ IsServerError(id)
        /\ calls[id].outcome[1].response[1].status = 401
        /\ calls[id].loc[1].pathname = "/replicas"
        /\ calls[id].options.url = "/api/replicas"
        /\ Len(Navigations(id)) = 1
        /\ calls[id].state = "rejected"

(* C8: whenever the redirect fires, its target is /login?prev=<P>, P the    *)
(* path of the current page followed by its query string, on every page,    *)
(* the root path with a query string included.                              *)
C8_PrevIsPathAndQuery ==
    \A k \in DOMAIN hrefs :
        LET loc == calls[hrefs[k].call].loc[1]
        IN  hrefs[k].target = "/login?prev=" \o loc.pathname \o loc.search

(* C9: the redirect is only ever taken while handling a ServerError; no     *)
(* success, NoResponse, Cancelled or SetupFailure outcome navigates.        *)
C9_RedirectOnlyFromServerError ==
    /\ \A k \in DOMAIN hrefs : IsServerError(hrefs[k].call)
    /\ \A id \in DOMAIN calls :
          (\E k \in DOMAIN calls[id].trace : calls[id].trace[k].e = "href")
              => IsServerError(id)

C9_Witness ==
    /\ \E id \in DOMAIN calls :
          /\ IsNoResponse(id) \/ IsSetupFailure(id) \/ IsCancelled(id)
          /\ ~OnLoginRoute(calls[id].loc[1])
          /\ calls[id].state = "rejected"
    /\ \E id \in DOMAIN calls : IsServerError(id) /\ Navigations(id) # <<>>

(* C10: of two calls that differ only in quietError and fail alike in the   *)
(* ServerError or NoResponse bucket, the quiet one emits no alert, and both *)
(* reject with the same value and write the same log entry.                 *)
AlikeButQuiet(quiet, loud) ==
    /\ calls[quiet].options.quietError
    /\ calls[loud].options = [calls[quiet].options EXCEPT !.quietError = FALSE]
    /\ IsServerError(quiet) \/ IsNoResponse(quiet)
    /\ calls[loud].outcome = calls[quiet].outcome
    /\ calls[loud].loc = calls[quiet].loc

Entries(entries) == [k \in DOMAIN entries |-> entries[k].entry]

C10_QuietErrorOnlySilences ==
    \A quiet \in DOMAIN calls, loud \in DOMAIN calls :
        AlikeButQuiet(quiet, loud) =>
            /\ AlertsOf(quiet) = <<>>
            /\ calls[quiet].state = "rejected"
            /\ calls[loud].state = "rejected"
            /\ calls[quiet].value = calls[loud].value
            /\ calls[quiet].value =
                  IF IsServerError(quiet)
                  THEN Some(calls[quiet].outcome[1].response[1])
                  ELSE Some(EmptyObject)
            /\ Len(ResponseLogOf(quiet)) = 1
            /\ Entries(ResponseLogOf(quiet)) = Entries(ResponseLogOf(loud))

C10_Witness ==
    \E quiet \in DOMAIN calls, loud \in DOMAIN calls :
        /\ AlikeButQuiet(quiet, loud)
        /\ IsServerError(quiet)
        /\ Len(AlertsOf(loud)) = 1
        /\ AlertsOf(quiet) = <<>>

-----------------------------------------------------------------------------
(* The cache.                                                               *)

(* A step that makes a call, and the call it makes.                         *)
CallMade == Len(calls') = Len(calls) + 1
Made == calls'[Len(calls')]

HasEntry(key) == key \in DOMAIN cache
Age(key) == now - cache[key].storedAt

(* The entry of key is fresh for a read with this cacheFor.                 *)
Fresh(key, cacheFor) ==
    /\ HasEntry(key)
    /\ IsSome(cacheFor) => Age(key) <= cacheFor[1]

ServedFromCache(call, data) ==
    /\ call.net = 0
    /\ call.state = "resolved"
    /\ call.value = Some([data |-> data])

(* C1: a send with cache: true that finds a fresh entry for its url,        *)
(* whatever the stored payload is, issues no network call and resolves with *)
(* a response whose data is the cached payload.                             *)
C1_FreshEntryServed ==
    [][ (CallMade /\ Made.options.cache
            /\ Fresh(Made.options.url, Made.options.cacheFor))
        => ServedFromCache(Made, cache[Made.options.url].data) ]_vars

(* C2: a send with cache: true whose entry is older than cacheFor does not  *)
(* return the cached value and issues a network call; without cacheFor an   *)
(* entry is never stale, whatever its age.                                  *)
C2_StaleEntryBypassed ==
    [][ (CallMade /\ Made.options.cache /\ HasEntry(Made.options.url)) =>
          LET key == Made.options.url
              cacheFor == Made.options.cacheFor
          IN  /\ (IsSome(cacheFor) /\ Age(key) > cacheFor[1])
                    => /\ Made.net = 1
                       /\ Made.state = "pending"
                       /\ Made.value = None
              /\ (~IsSome(cacheFor) /\ Truthy(cache[key].data))
                    => ServedFromCache(Made, cache[key].data) ]_vars

(* A call with cacheFor 1 made at time 2 went to the network although an    *)
(* entry stored at time 0 and never overwritten held a payload, and a call  *)
(* without cacheFor made at time 2 was served that entry.                   *)
C2_Witness ==
    /\ now = 2
    /\ HasEntry("/api/endpoints")
    /\ cache["/api/endpoints"] = [data |-> "{a:1}", storedAt |-> 0]
    /\ \E id \in DOMAIN calls :
          /\ calls[id].options.cache
          /\ calls[id].options.cacheFor = Some(1)
          /\ calls[id].at = 2
          /\ calls[id].net = 1

-----------------------------------------------------------------------------
(* Cancellation.                                                            *)

Tagged(buffer, tag) == {i \in DOMAIN buffer : buffer[i].requestId = tag}
OtherEntries(buffer, tag) == SelectSeq(buffer, LAMBDA r : r.requestId # tag)
Registered(id) == \E i \in DOMAIN cancelables : cancelables[i].cancel = id

(* cancelRequests(tag) called in the state reached would invoke no handle   *)
(* and leave the buffer as it is.                                           *)
CancelIsNoOp(tag) ==
    /\ filteredCancelables(cancelables, tag) = <<>>
    /\ remainingCancelables(cancelables, tag) = cancelables
    /\ CancelAll(calls, microtasks, filteredCancelables(cancelables, tag))
          = [calls |-> calls, microtasks |-> microtasks]

(* C4: cancelRequests(tag) invokes the cancel handle of every cancelable    *)
(* registered under tag exactly once and removes all of them; the same call *)
(* made again right after invokes nothing and leaves the buffer unchanged.  *)
C4_CancelsEachOnceThenNothing ==
    [][ \A tag \in CancelTags :
          CancelRequests(tag) =>
            /\ \A i \in Tagged(cancelables, tag) :
                  LET id == cancelables[i].cancel
                  IN  /\ calls'[id].cancelCalls = calls[id].cancelCalls + 1
                      /\ calls'[id].cancelCalls = 1
                      /\ \A j \in DOMAIN cancelables' : cancelables'[j].cancel # id
            /\ Tagged(cancelables', tag) = {}
            /\ CancelIsNoOp(tag)' ]_vars

C4_Witness ==
    /\ \E a \in DOMAIN calls, b \in DOMAIN calls :
          /\ a # b
          /\ calls[a].options.cancelId = "grp1"
          /\ calls[b].options.cancelId = "grp1"
          /\ calls[a].cancelCalls = 1
          /\ calls[b].cancelCalls = 1
          /\ ~Registered(a)
          /\ ~Registered(b)
    /\ \E c \in DOMAIN calls : calls[c].options.cancelId = "grp2" /\ Registered(c)

(* C5: cancelRequests(tag) neither invokes the handle of nor removes a      *)
(* cancelable of another tag, keeps the order of the entries that stay,     *)
(* leaves calls without cancelId untouched and changes nothing when no      *)
(* entry carries tag.                                                       *)
C5_OtherTagsUntouched ==
    [][ /\ \A tag \in CancelTags :
              CancelRequests(tag) =>
                /\ \A id \in DOMAIN calls :
                      calls[id].options.cancelId # tag => calls'[id] = calls[id]
                /\ OtherEntries(cancelables', tag) = OtherEntries(cancelables, tag)
                /\ \A k \in DOMAIN microtasks' :
                      calls[microtasks'[k]].options.cancelId = tag
                          \/ \E m \in DOMAIN microtasks : microtasks[m] = microtasks'[k]
                /\ UNCHANGED <<cache, log, alerts, hrefs, location, now>>
        /\ \A tag \in CancelTags :
              (Tagged(cancelables, tag) = {} => CancelIsNoOp(tag))' ]_vars

C5_Witness ==
    /\ Len(cancelables) = 2
    /\ cancelables[1].requestId = "grp2"
    /\ cancelables[2].requestId = "grp2"
    /\ cancelables[1].cancel = 3
    /\ cancelables[2].cancel = 1
    /\ calls[1].cancelCalls = 0
    /\ calls[3].cancelCalls = 0
    /\ calls[2].options.cancelId = "grp1"
    /\ calls[2].cancelCalls = 1

-----------------------------------------------------------------------------
(* The capacity of the buffer.                                              *)

(* The calls that registered a cancelable: those with a cancelId that were  *)
(* not served from the cache.                                               *)
Registrations == {id \in DOMAIN calls : calls[id].options.cancelId # "" /\ calls[id].net > 0}
LaterRegistrations(id) == Cardinality({j \in Registrations : j > id})
NoneCancelled == \A id \in DOMAIN calls : calls[id].cancelCalls = 0

BufferIds == {cancelables[i].cancel : i \in DOMAIN cancelables}

(* The buffer holds the calls registered last, as many as fit in 100, the   *)
(* newest first.                                                            *)
NewestInOrder ==
    /\ BufferIds \subseteq Registrations
    /\ Len(cancelables) = IF Cardinality(Registrations) < 100
                          THEN Cardinality(Registrations) ELSE 100
    /\ \A gone \in Registrations \ BufferIds : \A kept \in BufferIds : gone < kept
    /\ \A i \in DOMAIN cancelables :
          i > 1 => cancelables[i - 1].cancel > cancelables[i].cancel

(* C3: the buffer holds at most 100 entries; a registration is inserted at  *)
(* the newest end and, when the buffer would exceed 100, exactly the oldest *)
(* entry is evicted, so that after 101 registrations in a row the buffer    *)
(* holds exactly the 100 registered last.                                   *)
C3_BufferKeepsNewest100 ==
    [][ /\ Len(cancelables') <= 100
        /\ (CallMade /\ Made.options.cancelId # "" /\ Made.net = 1) =>
              LET entry == [requestId |-> Made.options.cancelId, cancel |-> Len(calls')]
              IN  /\ cancelables'[1] = entry
                  /\ Len(cancelables) < 100 => cancelables' = <<entry>> \o cancelables
                  /\ Len(cancelables) = 100 =>
                        cancelables' = <<entry>> \o SubSeq(cancelables, 1, 99)
        /\ (NoneCancelled => NewestInOrder)' ]_vars

(* 101 calls registered a cancelable, none was cancelled: the first is gone *)
(* and the other 100 are in the buffer.                                     *)
C3_Witness ==
    /\ Cardinality(Registrations) = 101
    /\ NoneCancelled
    /\ Len(cancelables) = 100
    /\ ~Registered(1)
    /\ \A id \in 2..101 : Registered(id)
    /\ cancelables[1].cancel = 101
    /\ cancelables[100].cancel = 2

Queued(id) == \E k \in DOMAIN microtasks : microtasks[k] = id

(* A call in flight whose cancel handle has not been invoked.               *)
Cancellable(id) ==
    /\ calls[id].options.cancelId # ""
    /\ calls[id].state = "pending"
    /\ calls[id].cancelCalls = 0

TagsInUse == {calls[id].options.cancelId : id \in DOMAIN calls} \ {""}

(* What cancelRequests(tag) called in this state would leave.               *)
AfterCancel(tag) ==
    CancelAll(calls, microtasks, filteredCancelables(cancelables, tag))

(* It would cancel call id: invoke its handle and queue its rejection.      *)
ReachedBy(done, id) ==
    /\ done.calls[id].cancelCalls = 1
    /\ \E k \in DOMAIN done.microtasks : done.microtasks[k] = id

(* The outcome of a cancelled call: rejected with { canceled: true }, no    *)
(* alert, one RESPONSE log entry, of status "canceled", one transport call. *)
CancelledOutcome(id) ==
    /\ calls[id].state = "rejected"
    /\ calls[id].value = Some([canceled |-> TRUE])
    /\ AlertsOf(id) = <<>>
    /\ Entries(ResponseLogOf(id)) =
          <<[url |-> calls[id].options.url, method |-> "GET",
             type |-> "RESPONSE", requestStatus |-> "canceled"]>>
    /\ calls[id].net = 1

(* C6, as claimed: cancelRequests(tag) cancels every call sent with tag     *)
(* that is in flight, however many cancelables were registered since.       *)
C6_CancelReachesEveryCallInFlight ==
    /\ \A tag \in TagsInUse :
          LET done == AfterCancel(tag)
          IN  \A id \in DOMAIN calls :
                  (Cancellable(id) /\ calls[id].options.cancelId = tag)
                      => ReachedBy(done, id)
    /\ \A id \in DOMAIN calls : Queued(id) => calls[id].state = "pending"
    /\ \A id \in DOMAIN calls : IsCancelled(id) => CancelledOutcome(id)

(* C6, amended: the same, for the calls after which fewer than 100          *)
(* cancelables were registered.                                             *)
C6_CancelReachesRegisteredCall ==
    /\ \A tag \in TagsInUse :
          LET done == AfterCancel(tag)
          IN  \A id \in DOMAIN calls :
                  (Cancellable(id) /\ calls[id].options.cancelId = tag
                      /\ LaterRegistrations(id) < 100)
                      => ReachedBy(done, id)
    /\ \A id \in DOMAIN calls : Queued(id) => calls[id].state = "pending"
    /\ \A id \in DOMAIN calls : IsCancelled(id) => CancelledOutcome(id)

(* A call was cancelled after 99 others had registered a cancelable.        *)
C6_Witness ==
    \E id \in DOMAIN calls :
        /\ calls[id].options.cancelId = "grp1"
        /\ IsCancelled(id)
        /\ CancelledOutcome(id)
        /\ LaterRegistrations(id) = 99
        /\ Len(cancelables) = 99

(* C11: a call made with skipLog: true appends no REQUEST and no RESPONSE   *)
(* log entry, whatever its outcome: success, ServerError, NoResponse,       *)
(* Cancelled or SetupFailure.                                               *)
C11_SkipLogAppendsNothing ==
    \A id \in DOMAIN calls : calls[id].options.skipLog => LogOf(id) = <<>>

(* What the handler of a failed call did, read off the value its promise    *)
(* was rejected with and the entry it logged.                               *)
RejectedWith(id, value) ==
    calls[id].state = "rejected" /\ calls[id].value = Some(value)

LoggedResponse(id, status, description) ==
    /\ Len(ResponseLogOf(id)) = 1
    /\ LET entry == ResponseLogOf(id)[1].entry
       IN  /\ entry.requestStatus = status
           /\ IF description = "" THEN "description" \notin DOMAIN entry
              ELSE "description" \in DOMAIN entry /\ entry.description = description

SetupDescription == "Something happened in setting up the request"

TookServerError(id) ==
    /\ IsSome(calls[id].outcome[1].response)
    /\ RejectedWith(id, calls[id].outcome[1].response[1])
    /\ LoggedResponse(id, ToString(calls[id].outcome[1].response[1].status), "")
TookNoResponse(id) ==
    RejectedWith(id, EmptyObject) /\ LoggedResponse(id, "500", "No response")
TookCancelled(id) ==
    RejectedWith(id, [canceled |-> TRUE]) /\ LoggedResponse(id, "canceled", "")
TookSetupFailure(id) ==
    RejectedWith(id, [canceled |-> FALSE]) /\ LoggedResponse(id, "500", SetupDescription)

BucketsTaken(id) ==
    {b \in {"ServerError", "NoResponse", "Cancelled", "SetupFailure"} :
        \/ b = "ServerError" /\ TookServerError(id)
        \/ b = "NoResponse" /\ TookNoResponse(id)
        \/ b = "Cancelled" /\ TookCancelled(id)
        \/ b = "SetupFailure" /\ TookSetupFailure(id)}

BucketOf(id) ==
    IF IsServerError(id) THEN "ServerError"
    ELSE IF IsNoResponse(id) THEN "NoResponse"
    ELSE IF IsCancelled(id) THEN "Cancelled"
    ELSE "SetupFailure"

Count(id, kind) ==
    Len(SelectSeq(calls[id].trace, LAMBDA eff : eff.e = kind))

(* C12: every failure of the transport is handled in exactly one of the     *)
(* four buckets ServerError, NoResponse, Cancelled, SetupFailure, the one   *)
(* of its error; in each of them the promise is rejected, never resolved    *)
(* and never left pending, and no second network call is made.              *)
C12_OneBucketAlwaysRejects ==
    \A id \in DOMAIN calls :
        IsFailure(id) =>
            /\ BucketsTaken(id) = {BucketOf(id)}
            /\ calls[id].state = "rejected"
            /\ Count(id, "reject") = 1
            /\ Count(id, "resolve") = 0
            /\ Count(id, "dispatch") = 1
            /\ calls[id].net = 1

C12_Witness ==
    \E id \in DOMAIN calls :
        /\ IsNoResponse(id)
        /\ calls[id].options.skipLog
        /\ calls[id].options.quietError
        /\ calls[id].state = "rejected"
        /\ calls[id].net = 1

(* C13: a SetupFailure rejects with { canceled: false }, always shows an    *)
(* alert, with quietError set too, and is logged as a RESPONSE entry of     *)
(* status 500 with the description "Something happened in setting up the    *)
(* request".                                                                *)
C13_SetupFailureAlwaysAlerts ==
    \A id \in DOMAIN calls :
        IsSetupFailure(id) =>
            /\ RejectedWith(id, [canceled |-> FALSE])
            /\ Len(AlertsOf(id)) = 1
            /\ LoggedResponse(id, "500", SetupDescription)

C13_Witness ==
    \E id \in DOMAIN calls :
        /\ IsSetupFailure(id)
        /\ calls[id].options.quietError
        /\ OnLoginRoute(calls[id].loc[1])
        /\ AlertsOf(id) # <<>>
        /\ calls[id].value = Some([canceled |-> FALSE])

(* C14: a ServerError rejects with the response object of the transport,    *)
(* is always logged as a RESPONSE entry carrying the status of the          *)
(* response, and shows an alert exactly when quietError is not set and it   *)
(* is not the case that the status is 401 on the login page.                *)
C14_ServerErrorRejectsLogsAlerts ==
    \A id \in DOMAIN calls :
        IsServerError(id) =>
            LET response == calls[id].outcome[1].response[1]
            IN  /\ RejectedWith(id, response)
                /\ LoggedResponse(id, ToString(response.status), "")
                /\ Len(AlertsOf(id)) <= 1
                /\ (AlertsOf(id) # <<>>) <=>
                       /\ ~calls[id].options.quietError
                       /\ ~(response.status = 401 /\ OnLoginRoute(calls[id].loc[1]))

C14_Witness ==
    \E id \in DOMAIN calls :
        /\ IsServerError(id)
        /\ calls[id].outcome[1].response[1].status = 401
        /\ OnLoginRoute(calls[id].loc[1])
        /\ ~calls[id].options.quietError
        /\ AlertsOf(id) = <<>>
        /\ Len(ResponseLogOf(id)) = 1
        /\ calls[id].state = "rejected"

(* C15: a NoResponse failure rejects with an empty object, is logged as a   *)
(* RESPONSE entry of status 500 with the description "No response", and     *)
(* shows an alert exactly when the page is not the login page and           *)
(* quietError is not set.                                                   *)
C15_NoResponseRejectsLogsAlerts ==
    \A id \in DOMAIN calls :
        IsNoResponse(id) =>
            /\ RejectedWith(id, EmptyObject)
            /\ LoggedResponse(id, "500", "No response")
            /\ Len(AlertsOf(id)) <= 1
            /\ (AlertsOf(id) # <<>>) <=>
                   /\ ~OnLoginRoute(calls[id].loc[1])
                   /\ ~calls[id].options.quietError

C15_Witness ==
    \E id \in DOMAIN calls :
        /\ IsNoResponse(id)
        /\ ~OnLoginRoute(calls[id].loc[1])
        /\ ~calls[id].options.quietError
        /\ Len(AlertsOf(id)) = 1
        /\ calls[id].value = Some(EmptyObject)

RequestLogOf(id) == SelectSeq(log, LAMBDA l : l.call = id /\ l.entry.type = "REQUEST")

First(id, kind) ==
    CHOOSE k \in DOMAIN calls[id].trace :
        /\ calls[id].trace[k].e = kind
        /\ \A j \in 1..(k - 1) : calls[id].trace[j].e # kind

IsSettled(id) == calls[id].state \in {"resolved", "rejected"}

(* C19: a call that is not served from the cache and has skipLog unset      *)
(* appends exactly one REQUEST entry, before the request is dispatched,     *)
(* and exactly one RESPONSE entry when it settles, after the REQUEST entry; *)
(* the RESPONSE entry of a success carries status 200.                      *)
C19_OneRequestThenOneResponse ==
    \A id \in DOMAIN calls :
        (~calls[id].options.skipLog /\ Count(id, "dispatch") > 0) =>
            /\ Len(RequestLogOf(id)) = 1
            /\ First(id, "log") < First(id, "dispatch")
            /\ Len(ResponseLogOf(id)) = IF IsSettled(id) THEN 1 ELSE 0
            /\ IsSettled(id) =>
                  /\ Entries(LogOf(id))[1].type = "REQUEST"
                  /\ Entries(LogOf(id))[2].type = "RESPONSE"
                  /\ Len(LogOf(id)) = 2
            /\ IsSuccess(id) => ResponseLogOf(id)[1].entry.requestStatus = "200"

C19_Witness ==
    \E id \in DOMAIN calls :
        /\ ~calls[id].options.skipLog
        /\ IsSuccess(id)
        /\ calls[id].state = "resolved"
        /\ Len(LogOf(id)) = 2
        /\ LogOf(id)[1].entry.type = "REQUEST"
        /\ LogOf(id)[2].entry.requestStatus = "200"

(* C16: a send served from the cache leaves the request log, the buffer of  *)
(* cancelables and the cache as they were: it appends no log entry and      *)
(* registers no cancelable, with cancelId supplied and skipLog unset too.   *)
C16_CacheHitTouchesNothing ==
    [][ (CallMade /\ Made.net = 0 /\ Made.state = "resolved") =>
            /\ log' = log
            /\ cancelables' = cancelables
            /\ cache' = cache ]_vars

C16_Witness ==
    \E id \in DOMAIN calls :
        /\ calls[id].options.cancelId = "grp1"
        /\ ~calls[id].options.skipLog
        /\ ServedFromCache(calls[id], "{a:1}")
        /\ LogOf(id) = <<>>
        /\ \A k \in DOMAIN cancelables : cancelables[k].cancel # id
        /\ cache["/api/endpoints"].data = "{a:1}"

(* The call whose transport promise is fulfilled or rejected in this step.  *)
AnsweredNow(id) ==
    /\ id \in DOMAIN calls
    /\ ~IsSome(calls[id].outcome)
    /\ IsSome(calls'[id].outcome)

(* C17: the cache changes only when a send with cache: true receives a      *)
(* successful response, whose payload it then holds under the url of the    *)
(* call; a send without cache, or one that fails in any bucket, never       *)
(* changes it; and once a payload is stored, a second send with cache: true *)
(* for the same url resolves with that payload without a network call.      *)
C17_CacheWrittenOnlyOnCachedSuccess ==
    [][ /\ cache' # cache =>
              \E id \in DOMAIN calls :
                  /\ AnsweredNow(id)
                  /\ calls[id].options.cache
                  /\ "status" \in DOMAIN calls'[id].outcome[1]
                  /\ cache' = CacherSave(cache, calls[id].options.url,
                                         calls'[id].outcome[1].data, now)
        /\ (CallMade /\ Made.options.cache /\ HasEntry(Made.options.url)) =>
              ServedFromCache(Made, cache[Made.options.url].data) ]_vars

(* The calls with cache: true for url that went to the network, and the     *)
(* place in the log of the RESPONSE entry of a call: the order in which     *)
(* the responses completed.                                                 *)
CachingCalls(url) ==
    {id \in DOMAIN calls :
        /\ calls[id].options.cache
        /\ calls[id].options.url = url
        /\ calls[id].net > 0}

Completed(id) ==
    CHOOSE k \in DOMAIN log : log[k].call = id /\ log[k].entry.type = "RESPONSE"

UrlsCalled == {calls[id].options.url : id \in DOMAIN calls}

(* C18: when several sends with cache: true for one url are in flight at    *)
(* once, the entry of the url, once all of them have succeeded, holds the   *)
(* payload of the call whose response completed last, whatever the order    *)
(* in which the calls were issued.                                          *)
C18_LastCompletedResponseWins ==
    \A url \in UrlsCalled :
        (CachingCalls(url) # {} /\ \A id \in CachingCalls(url) : IsSuccess(id)) =>
            \E last \in CachingCalls(url) :
                /\ \A id \in CachingCalls(url) : Completed(id) <= Completed(last)
                /\ HasEntry(url)
                /\ cache[url].data = calls[last].outcome[1].data

(* Two calls for one url were in flight together; the second completed      *)
(* first, and the entry holds the payload of the first.                     *)
C18_Witness ==
    /\ CachingCalls("/api/endpoints") = {1, 2}
    /\ IsSuccess(1) /\ IsSuccess(2)
    /\ Completed(2) < Completed(1)
    /\ calls[1].outcome[1].data = "{a:1}"
    /\ calls[2].outcome[1].data = "{a:2}"
    /\ cache["/api/endpoints"].data = "{a:1}"

(* A call a step is about: the one it makes, the one whose transport       *)
(* promise it settles, one whose cancel handle it invokes.                  *)
IsSubject(b) ==
    \/ b \notin DOMAIN calls
    \/ AnsweredNow(b)
    \/ calls'[b].cancelCalls # calls[b].cancelCalls

(* The calls with this tag and another url than this one that               *)
(* cancelRequests(tag) would cancel: in flight, not yet cancelled, their    *)
(* handle in the buffer under the tag.                                      *)
StillCancellable(tag, url) ==
    {a \in {cancelables[i].cancel : i \in Tagged(cancelables, tag)} :
        Cancellable(a) /\ calls[a].options.url # url}

SameResults(a) ==
    /\ calls'[a].state = calls[a].state
    /\ calls'[a].value = calls[a].value
    /\ AlertsOf(a)' = AlertsOf(a)
    /\ LogOf(a)' = LogOf(a)

(* The calls with a tag and a url other than those of call b keep their     *)
(* settled value, their alerts and their log entries in this step.          *)
OthersKeepResults(b, tag) ==
    \A a \in DOMAIN calls :
        (calls[a].options.cancelId = tag
            /\ calls[a].options.url # calls'[b].options.url) => SameResults(a)

OtherTags(b) ==
    IF calls'[b].options.cancelId = "" THEN {}
    ELSE TagsInUse \ {calls'[b].options.cancelId}

(* C20, as claimed: a step about a call with another tag and another url    *)
(* changes neither the settled value, the alerts and the log entries of a   *)
(* call nor whether cancelRequests with its own tag can still cancel it,    *)
(* however many calls were made with the other tag.                         *)
C20_OtherTagNeverInterferes ==
    [][ \A b \in DOMAIN calls' :
            IsSubject(b) =>
                \A tag \in OtherTags(b), url \in {calls'[b].options.url} :
                    /\ OthersKeepResults(b, tag)
                    /\ StillCancellable(tag, url)' = StillCancellable(tag, url) ]_vars

(* C20, amended: the same, the calls after which 100 cancelables were       *)
(* registered excepted, whose entry the buffer has dropped.                 *)
C20_OtherTagInterferesOnlyByEviction ==
    [][ \A b \in DOMAIN calls' :
            IsSubject(b) =>
                \A tag \in OtherTags(b), url \in {calls'[b].options.url} :
                    /\ OthersKeepResults(b, tag)
                    /\ StillCancellable(tag, url)' \subseteq StillCancellable(tag, url)
                    /\ \A a \in StillCancellable(tag, url) \ StillCancellable(tag, url)' :
                          LaterRegistrations(a)' >= 100 ]_vars

(* 99 calls were made with another tag and another url after a call that    *)
(* is still in flight, and cancelRequests with its tag would still reach    *)
(* it; each of the 99 can be cancelled through its own tag.                 *)
C20_Witness ==
    \E a \in Observed :
        /\ Cardinality(Fillers) = 99
        /\ LaterRegistrations(a) = 99
        /\ a \in StillCancellable("grp1", "/api/poll")
        /\ Fillers = StillCancellable("poll", "/api/executions")
        /\ LogOf(a) # <<>>

(* The entry of call id left the buffer in this step through                *)
(* cancelRequests of its tag, which invoked its handle and left no entry of *)
(* the tag.                                                                 *)
LeftByCancel(id) ==
    /\ calls'[id].cancelCalls = calls[id].cancelCalls + 1
    /\ Tagged(cancelables', calls[id].options.cancelId) = {}
    /\ Len(calls') = Len(calls)

(* It left through overflow: it was the oldest of 100 when a call           *)
(* registered a new one.                                                    *)
LeftByOverflow(id) ==
    /\ Len(cancelables) = 100
    /\ cancelables[100].cancel = id
    /\ CallMade
    /\ cancelables'[1].cancel = Len(calls')
    /\ calls'[id] = calls[id]

(* C21: an entry of the buffer is created exactly when a send that is not   *)
(* served from the cache supplies a cancelId; it leaves the buffer only     *)
(* through cancelRequests of its own tag or through the eviction of the     *)
(* oldest entry on overflow; the settling of its request, by a success or   *)
(* by a failure, does not remove it.                                        *)
C21_EntryLifecycle ==
    [][ /\ BufferIds' \ BufferIds =
              IF CallMade /\ Made.options.cancelId # "" /\ Made.net = 1
              THEN {Len(calls')} ELSE {}
        /\ CallMade /\ Made.options.cancelId # "" /\ Made.net = 1 =>
              cancelables'[1] = [requestId |-> Made.options.cancelId,
                                 cancel |-> Len(calls')]
        /\ \A id \in BufferIds \ BufferIds' : LeftByCancel(id) \/ LeftByOverflow(id)
        /\ (\E id \in DOMAIN calls : AnsweredNow(id)) => cancelables' = cancelables
      ]_vars

(* The first call was answered and its entry is still in the buffer, the    *)
(* oldest of 100; the second was served from the cache and has none.        *)
C21_Witness ==
    /\ Len(calls) = 101
    /\ calls[1].state = "resolved" /\ calls[1].net = 1
    /\ calls[1].cancelCalls = 0
    /\ calls[2].options.cancelId = "grp1" /\ calls[2].net = 0
    /\ Len(cancelables) = 100
    /\ cancelables[100] = [requestId |-> "grp1", cancel |-> 1]
    /\ 2 \notin BufferIds

(* The url without its scheme and host: what follows them, from the first   *)
(* "/" on, of a url that starts with a scheme; the url itself otherwise.    *)
PathOnly(url) ==
    LET scheme == IF StartsWithAt(url, "https://", 1) THEN 8
                  ELSE IF StartsWithAt(url, "http://", 1) THEN 7
                  ELSE 0
        slash == IF scheme = 0 THEN 1 ELSE IndexFrom(url, "/", scheme + 1)
    IN  IF slash = 0 THEN url ELSE SubSeq(url, slash, Len(url))

EndsWith(s, suffix) ==
    Len(s) >= Len(suffix) /\ SubSeq(s, Len(s) - Len(suffix) + 1, Len(s)) = suffix

(* The doubled path, cut to 100 characters and an ellipsis when longer.     *)
DoubledAndCut(url) ==
    LET doubled == PathOnly(url) \o PathOnly(url)
    IN  IF Len(doubled) <= 100 THEN doubled
        ELSE SubSeq(doubled, 1, 100) \o "..."

ConnectionPrefix ==
    "Request failed, there might be a problem with the connection to the server. "

(* C22: the truncated url is the path-only part of the url concatenated     *)
(* with itself when that has at most 100 characters, and otherwise its      *)
(* first 100 characters followed by "..."; it never exceeds 103 characters  *)
(* and ends in an ellipsis only when the doubled path is longer than 100.   *)
C22_TruncatedUrlIsDoubledPathCut ==
    \A id \in DOMAIN calls :
        LET url == calls[id].options.url
            doubled == PathOnly(url) \o PathOnly(url)
            result == truncateUrl(url)
        IN  /\ result = DoubledAndCut(url)
            /\ Len(result) <= 103
            /\ EndsWith(result, "...") <=> Len(doubled) > 100
            /\ (IsNoResponse(id) \/ IsSetupFailure(id)) =>
                  /\ Len(AlertsOf(id)) = 1
                  /\ AlertsOf(id)[1].message = ConnectionPrefix \o DoubledAndCut(url)
            /\ (IsServerError(id)
                   /\ calls[id].outcome[1].response[1].status = 401) =>
                  /\ Len(AlertsOf(id)) = 1
                  /\ AlertsOf(id)[1].message = "Unauthorized " \o DoubledAndCut(url)

(* The alert of a call to an absolute url with a path of 51 characters      *)
(* ends with the first 100 characters of the doubled path and an ellipsis.  *)
C22_Witness ==
    \E id \in DOMAIN calls :
        /\ calls[id].options.url = "https://host/api/" \o Padding(46)
        /\ IsNoResponse(id)
        /\ Len(AlertsOf(id)) = 1
        /\ Len(AlertsOf(id)[1].message) = Len(ConnectionPrefix) + 103
        /\ EndsWith(AlertsOf(id)[1].message, "/api/" \o Padding(44) \o "...")

(* C23: a call settles at most once: once its promise is resolved or        *)
(* rejected, nothing, a later cancelRequests of its tag with its entry      *)
(* still in the buffer included, changes the settled value or adds a        *)
(* RESPONSE log entry or an alert; each call has at most one RESPONSE log   *)
(* entry and at most one alert.                                             *)
C23_SettlesAtMostOnce ==
    [][ /\ \A id \in DOMAIN calls :
              IsSettled(id) =>
                  /\ calls'[id].state = calls[id].state
                  /\ calls'[id].value = calls[id].value
                  /\ ResponseLogOf(id)' = ResponseLogOf(id)
                  /\ AlertsOf(id)' = AlertsOf(id)
        /\ \A id \in DOMAIN calls' :
              /\ Len(ResponseLogOf(id)') <= 1
              /\ Len(AlertsOf(id)') <= 1
              /\ Count(id, "resolve")' + Count(id, "reject")' <= 1 ]_vars

(* cancelRequests invoked the handle of a call that had been answered: it   *)
(* kept its value and its one RESPONSE entry, and its entry is gone.        *)
C23_Witness ==
    \E id \in DOMAIN calls :
        /\ calls[id].options.cancelId = "grp1"
        /\ ~calls[id].options.skipLog
        /\ IsSuccess(id)
        /\ calls[id].state = "resolved"
        /\ calls[id].value = calls[id].outcome
        /\ calls[id].cancelCalls = 1
        /\ Len(ResponseLogOf(id)) = 1
        /\ ResponseLogOf(id)[1].entry.requestStatus = "200"
        /\ cancelables = <<>>
        /\ microtasks = <<>>

(* The kinds of the effects of the handler of call id, in order: those      *)
(* past the dispatch of its request.                                        *)
HandlerTrace(id) ==
    LET trace == calls[id].trace
        rest == SubSeq(trace, First(id, "dispatch") + 1, Len(trace))
    IN  [k \in DOMAIN rest |-> rest[k].e]

OffAllowList(id) ==
    LET failingUrl == calls[id].outcome[1].request[1].responseURL
    IN  /\ IndexFrom(failingUrl, "/proxy/", 1) = 0
        /\ IndexFrom(failingUrl, "/azure-login", 1) = 0

(* C24: quietError does not touch the redirect: a ServerError of status 401 *)
(* off the login page, for a url outside the allow-list, navigates to the   *)
(* login route with quietError set as without it; without it the alert is   *)
(* shown before the navigation; the log entry and the rejection follow the  *)
(* navigation.                                                              *)
C24_QuietErrorKeepsRedirect ==
    \A id \in DOMAIN calls :
        (/\ IsServerError(id)
         /\ calls[id].outcome[1].response[1].status = 401
         /\ ~OnLoginRoute(calls[id].loc[1])
         /\ OffAllowList(id)) =>
            /\ Len(Navigations(id)) = 1
            /\ StartsWithAt(Navigations(id)[1].target, "/login", 1)
            /\ HandlerTrace(id) =
                  IF calls[id].options.quietError
                  THEN <<"href", "log", "reject">>
                  ELSE <<"alert", "href", "log", "reject">>

C24_Witness ==
    \E id \in DOMAIN calls :
        /\ calls[id].options.quietError
        /\ IsServerError(id)
        /\ calls[id].outcome[1].response[1].status = 401
        /\ calls[id].loc[1].pathname = "/replicas"
        /\ calls[id].options.url = "/api/replicas"
        /\ AlertsOf(id) = <<>>
        /\ Navigations(id) # <<>>
        /\ HandlerTrace(id) = <<"href", "log", "reject">>

(* C25: the cache is read only when send is called and written only when a  *)
(* response arrives, and requests in flight are not coalesced: a send with  *)
(* cache: true for a url that has no entry goes to the network, another     *)
(* call for the url being in flight or not; a send writes nothing to the    *)
(* cache, and a response leaves every other call as it is.                  *)
C25_NoCoalescing ==
    [][ /\ CallMade =>
              /\ cache' = cache
              /\ (Made.options.cache /\ ~HasEntry(Made.options.url)) =>
                    /\ Made.net = 1
                    /\ Made.state = "pending"
              /\ \A id \in DOMAIN calls : calls'[id] = calls[id]
        /\ \A id \in DOMAIN calls :
              AnsweredNow(id) =>
                  \A other \in DOMAIN calls \ {id} : calls'[other] = calls[other]
        /\ cache' # cache => \E id \in DOMAIN calls : AnsweredNow(id) ]_vars

(* Two calls with cache: true for one url were both sent before either was  *)
(* answered: each made its own network call.                                *)
C25_Witness ==
    /\ Len(calls) = 2
    /\ \A id \in {1, 2} :
          /\ calls[id].options.cache
          /\ calls[id].options.url = "/api/endpoints"
          /\ calls[id].net = 1
          /\ IsSuccess(id)
    /\ \A k \in DOMAIN log :
          log[k].entry.type = "REQUEST" => k <= 2
    /\ Len(log) = 4

=============================================================================
